---------------------------- MODULE Spec2Model ----------------------------
(***************************************************************************)
(* A model of gather_samplers.py: find_videos (the Locator),               *)
(* group_by_task_model (the Aggregator), render_html (the Renderer), the   *)
(* script embedded in the rendered page, and main.                         *)
(*                                                                         *)
(* Python strings are sequences of one-character strings, so that          *)
(* concatenation, substring search, digit parsing, decimal formatting and  *)
(* lexicographic comparison are computed character by character.           *)
(***************************************************************************)
EXTENDS Integers, Sequences, FiniteSets, TLC

VARIABLES
    pc,             \* position of the run: which step of main (or of the page) is next
    dir_exists,     \* whether <base>/static/videos/highlight-videos exists
    files,          \* the files below the video root, as relative paths (tuples of segments)
    out_arg,        \* args.out: the empty string when --out is not given
    videos,         \* the list find_videos returned / the argument of group_by_task_model
    grouped,        \* the mapping group_by_task_model returned / the argument of render_html
    html,           \* the value render_html returned (or the exception it raised)
    stdout,         \* everything printed, in order
    out_file,       \* the file named by --out
    task_select,    \* page: value of the Task control
    model_options,  \* page: options of the Model control
    model_select,   \* page: value of the Model control
    display         \* page: style.display of every section, in document order

vars == <<pc, dir_exists, files, out_arg, videos, grouped, html, stdout,
          out_file, task_select, model_options, model_select, display>>

-----------------------------------------------------------------------------
(* Strings *)

\* The characters of the paths the model uses, in ascending code-point order.
Chars ==
    <<"-", ".", "/", "0", "1", "2", "3", "4", "5", "6", "7", "8", "9",
      "A", "X", "_", "a", "b", "c", "d", "e", "g", "h", "i", "k", "l", "m",
      "n", "o", "p", "r", "s", "t", "u", "v", "x">>

Ord(c) == CHOOSE i \in 1..Len(Chars) : Chars[i] = c

Digits == {"0", "1", "2", "3", "4", "5", "6", "7", "8", "9"}

DigitVal(c) == Ord(c) - Ord("0")

DigitChar(d) == Chars[Ord("0") + d]

\* Python's < on str: lexicographic by code point, a proper prefix is smaller.
RECURSIVE StrLess(_, _)
StrLess(a, b) ==
    IF b = <<>> THEN FALSE
    ELSE IF a = <<>> THEN TRUE
    ELSE IF Head(a) # Head(b) THEN Ord(Head(a)) < Ord(Head(b))
    ELSE StrLess(Tail(a), Tail(b))

\* Python's `sub in s`.
Contains(s, sub) ==
    \E i \in 1..(Len(s) - Len(sub) + 1) : SubSeq(s, i, i + Len(sub) - 1) = sub

\* Python's str(n) for n >= 0.
RECURSIVE str(_)
str(n) == IF n < 10 THEN <<DigitChar(n)>> ELSE str(n \div 10) \o <<DigitChar(n % 10)>>

\* Python's int(s) for a string of digits.
RECURSIVE int(_)
int(s) ==
    IF s = <<>> THEN 0 ELSE 10 * int(SubSeq(s, 1, Len(s) - 1)) + DigitVal(s[Len(s)])

\* Python's "/".join(parts), which is what str(rel) is for a relative POSIX path.
RECURSIVE JoinPath(_)
JoinPath(parts) ==
    IF Len(parts) = 0 THEN <<>>
    ELSE IF Len(parts) = 1 THEN parts[1]
    ELSE parts[1] \o <<"/">> \o JoinPath(Tail(parts))

\* Python's parts[k] on a tuple: 0-based, a negative k counts from the end,
\* and an index outside -len..len-1 raises IndexError.
InRange(parts, k) == k >= -Len(parts) /\ k < Len(parts)

Item(parts, k) == IF k < 0 THEN parts[Len(parts) + k + 1] ELSE parts[k + 1]

\* All orderings of a finite set, as sequences.
RECURSIVE Perms(_)
Perms(S) ==
    IF S = {} THEN {<<>>} ELSE UNION {{<<x>> \o p : p \in Perms(S \ {x})} : x \in S}

-----------------------------------------------------------------------------
(* group_by_task_model *)

\* A sort key that leaves out the path.
KeyLessIterOnly(x, y) == x.iter_num < y.iter_num

\* The sort key of line 74, compared as Python compares tuples.
KeyLess(x, y) ==
    \/ x.iter_num < y.iter_num
    \/ x.iter_num = y.iter_num /\ StrLess(x.path, y.path)

\* list.sort is stable: an element is placed after every element whose key is
\* not greater than its own.
RECURSIVE Insert(_, _)
Insert(sorted, v) ==
    IF sorted = <<>> THEN <<v>>
    ELSE IF KeyLess(v, Head(sorted)) THEN <<v>> \o sorted
    ELSE <<Head(sorted)>> \o Insert(Tail(sorted), v)

\* A sort whose result is thrown away.
Unsorted(vs) == vs

RECURSIVE SortVideos(_)
SortVideos(vs) ==
    IF vs = <<>> THEN <<>> ELSE Insert(SortVideos(SubSeq(vs, 1, Len(vs) - 1)), vs[Len(vs)])

KeyOf(v) == <<v.task, v.model>>

\* The records of one key, in input order (lines 68..70).
RECURSIVE Bucket(_, _)
Bucket(vs, k) ==
    IF vs = <<>> THEN <<>>
    ELSE IF KeyOf(Head(vs)) = k THEN <<Head(vs)>> \o Bucket(Tail(vs), k)
    ELSE Bucket(Tail(vs), k)

\* A truncation that also cuts the longer groups.
TruncateFromSix(vs) == IF Len(vs) >= 6 THEN SubSeq(vs, 1, 5) ELSE vs

\* Lines 76..77.
Truncate(vs) == IF Len(vs) = 6 THEN SubSeq(vs, 1, 5) ELSE vs

group_by_task_model(vs) ==
    [k \in {KeyOf(vs[i]) : i \in 1..Len(vs)} |-> Truncate(SortVideos(Bucket(vs, k)))]

-----------------------------------------------------------------------------
(* find_videos *)

VIDEO_NAME == <<"s", "i", "m", ".", "m", "p", "4">>

\* 'gpt-5', the text of line 42 that marks the model folder.
Marker == <<"g", "p", "t", "-", "5">>

\* "static/videos/highlight-videos/", the prefix of line 35.
WebPrefix ==
    <<"s", "t", "a", "t", "i", "c", "/", "v", "i", "d", "e", "o", "s", "/",
      "h", "i", "g", "h", "l", "i", "g", "h", "t", "-", "v", "i", "d", "e", "o", "s", "/">>

\* str(base) after resolve(): the absolute project root the run is given.
BaseDir == <<"/", "r">>

\* ITER_RE.search(s): the first maximal run of digits of s, or <<>> when s has none.
DigitRun(s) ==
    LET starts == {i \in 1..Len(s) : s[i] \in Digits}
    IN  IF starts = {} THEN <<>>
        ELSE LET a == CHOOSE i \in starts : \A j \in starts : i <= j
                 b == CHOOSE j \in a..Len(s) :
                          /\ \A m \in a..j : s[m] \in Digits
                          /\ j = Len(s) \/ s[j + 1] \notin Digits
             IN  SubSeq(s, a, b)

\* Lines 51..52 and the default of line 62.
IterNum(run_id) == IF DigitRun(run_id) = <<>> THEN 0 ELSE int(DigitRun(run_id))

HasMarker(parts) == \E i \in 0..(Len(parts) - 1) : Contains(Item(parts, i), Marker)

\* Line 42: the 0-based index of the first segment that contains the marker.
ModelIdx(parts) ==
    CHOOSE i \in 0..(Len(parts) - 1) :
        /\ Contains(Item(parts, i), Marker)
        /\ \A j \in 0..(i - 1) : ~Contains(Item(parts, j), Marker)

\* rglob(VIDEO_NAME): the files of that name.
Matches(fs) == {rel \in fs : rel[Len(rel)] = VIDEO_NAME}

Skipped(parts) == Len(parts) < 6 \/ ~HasMarker(parts)

\* parts[model_idx - 1] and parts[model_idx + 1] exist (as Python indexes a tuple).
Indexable(parts) ==
    /\ InRange(parts, 1)
    /\ InRange(parts, ModelIdx(parts) - 1)
    /\ InRange(parts, ModelIdx(parts) + 1)

\* Line 47.
TaskOf(parts) == Item(parts, ModelIdx(parts) - 1)

\* Lines 35..63: the record of one file that is not skipped.
VideoRecord(rel) ==
    LET model_idx == ModelIdx(rel)
        run_id == Item(rel, model_idx + 1)
    IN  [path |-> WebPrefix \o JoinPath(rel),
         abs_path |-> BaseDir \o <<"/">> \o WebPrefix \o JoinPath(rel),
         scene |-> Item(rel, 1),
         task |-> TaskOf(rel),
         model |-> Item(rel, model_idx),
         run_id |-> run_id,
         iter_name |-> run_id,
         iter_num |-> IterNum(run_id)]

\* The loop of lines 29..63 over the files in the order rglob yields them.
RECURSIVE Located(_)
Located(order) ==
    IF order = <<>> THEN <<>>
    ELSE IF Skipped(Head(order)) THEN Located(Tail(order))
    ELSE <<VideoRecord(Head(order))>> \o Located(Tail(order))

\* Whether the loop raises IndexError on one of the files.
Raises(order) == \E i \in 1..Len(order) : ~Skipped(order[i]) /\ ~Indexable(order[i])

-----------------------------------------------------------------------------
(* render_html *)

\* sorted(S) for a set of strings.
RECURSIVE SortedStrings(_)
SortedStrings(S) ==
    IF S = {} THEN <<>>
    ELSE LET m == CHOOSE x \in S : \A y \in S : y = x \/ StrLess(x, y)
         IN  <<m>> \o SortedStrings(S \ {m})

\* The order of line 132: by task, then by model.
PairLess(k1, k2) == StrLess(k1[1], k2[1]) \/ (k1[1] = k2[1] /\ StrLess(k1[2], k2[2]))

RECURSIVE SortedKeys(_)
SortedKeys(S) ==
    IF S = {} THEN <<>>
    ELSE LET m == CHOOSE x \in S : \A y \in S : y = x \/ PairLess(x, y)
         IN  <<m>> \o SortedKeys(S \ {m})

\* Line 81.
Tasks(g) == SortedStrings({k[1] : k \in DOMAIN g})

\* Line 82.
ModelsByTask(g) ==
    [t \in {k[1] : k \in DOMAIN g} |-> SortedStrings({k[2] : k \in {x \in DOMAIN g : x[1] = t}})]

\* Line 133.
SectionId(task, model) == task \o <<"-">> \o model

\* Line 139.
Caption(idx) ==
    <<"F", "e", "e", "d", "b", "a", "c", "k", " ", "i", "t", "e", "r", "a", "t", "i", "o",
      "n", " ">> \o str(idx)

\* Lines 138..153: one card per record, captioned with its 0-based position.
Cards(vids) == [j \in 1..Len(vids) |-> [src |-> vids[j].path, caption |-> Caption(j - 1)]]

\* Lines 132..158: one section per key, in sorted order, each with display:none.
Sections(g) ==
    LET keys == SortedKeys(DOMAIN g)
    IN  [n \in 1..Len(keys) |->
            [id |-> SectionId(keys[n][1], keys[n][2]),
             display |-> "none",
             task |-> keys[n][1],
             model |-> keys[n][2],
             cards |-> Cards(g[keys[n]])]]

\* The document render_html returns, as the parts of it that vary: the options of
\* the two controls, the sections and the modelsByTask constant of the script.
\* tasks[0] of line 121 raises IndexError when there is no task.
render_html(g) ==
    IF Tasks(g) = <<>> THEN [status |-> "IndexError"]
    ELSE [status |-> "ok",
          task_options |-> Tasks(g),
          model_options |-> ModelsByTask(g)[Tasks(g)[1]],
          sections |-> Sections(g),
          modelsByTask |-> ModelsByTask(g)]

-----------------------------------------------------------------------------
(* The script of the rendered page (lines 161..185) *)

\* The value of a select element: its first option unless one was chosen, and
\* the empty string when it has no options.
FirstOption(options) == IF options = <<>> THEN <<>> ELSE options[1]

\* document.getElementById(id): the first element of that id in document order.
GetElementById(doc, id) ==
    LET hits == {n \in 1..Len(doc.sections) : doc.sections[n].id = id}
    IN  IF hits = {} THEN 0 ELSE CHOOSE n \in hits : \A m \in hits : n <= m

\* updateModel: hide every section, then show the one found for task + "-" + model.
updateModel(doc, task, model) ==
    [n \in 1..Len(doc.sections) |->
        IF n = GetElementById(doc, task \o <<"-">> \o model) THEN "block" ELSE "none"]

-----------------------------------------------------------------------------
(* Values of the variables a specification does not use *)

NoDoc == [status |-> "none"]

NoFile == [exists |-> FALSE]

IdlePage ==
    /\ task_select = <<>>
    /\ model_options = <<>>
    /\ model_select = <<>>
    /\ display = <<>>

-----------------------------------------------------------------------------
(* The file systems and arguments main is run on *)

MaxRuns == 6

MaxDirs == 3

SceneA == <<"s", "c", "e", "n", "e", "A">>

TaskX == <<"t", "a", "s", "k", "X">>

Gpt5Dated == <<"g", "p", "t", "-", "5", "-", "2", "0", "2", "5", "-", "0", "8", "-", "0", "7">>

Gpt5Mini == <<"g", "p", "t", "-", "5", "-", "m", "i", "n", "i">>

RunName(i) == <<"r", "u", "n", "_">> \o str(i)

\* The files <dir>/run_0/sim.mp4 .. <dir>/run_<n-1>/sim.mp4.
RunsUnder(dir, n) == {dir \o <<RunName(i), VIDEO_NAME>> : i \in 0..(n - 1)}

\* scene/task/model, the layout of the comment of line 37, and the same one
\* level further down.
FlatLayout == <<SceneA, TaskX, Gpt5Dated>>

DeepLayout == <<<<"x">>>> \o FlatLayout

\* Single files: run folders of several tasks and models, a run folder without a
\* number, the marker in the first, in a middle and in the last folder, a file
\* seven segments deep, a path without the marker, a path that is too short and
\* a file of another name.
FilePool ==
    { DeepLayout \o <<RunName(0), VIDEO_NAME>>,
      DeepLayout \o <<<<"e", "n", "d">>, VIDEO_NAME>>,
      <<<<"x">>, SceneA, TaskX, Gpt5Mini, RunName(10), VIDEO_NAME>>,
      <<<<"x">>, SceneA, <<"t">>, <<"a", "-">> \o Marker, RunName(2), VIDEO_NAME>>,
      <<<<"x">>, SceneA, <<"t", "-", "a">>, Marker, RunName(2), VIDEO_NAME>>,
      <<Marker, <<"a">>, <<"b">>, <<"c">>, <<"d">>, VIDEO_NAME>>,
      <<<<"a">>, <<"b">>, Marker, <<"c">>, <<"d">>, VIDEO_NAME>>,
      <<<<"a">>, <<"b">>, <<"c">>, <<"d">>, Marker, VIDEO_NAME>>,
      <<<<"x">>, <<"x">>, SceneA, TaskX, Gpt5Dated, RunName(3), VIDEO_NAME>>,
      <<<<"a">>, <<"b">>, <<"c">>, <<"d">>, <<"e">>, VIDEO_NAME>>,
      FlatLayout \o <<RunName(0), VIDEO_NAME>>,
      DeepLayout \o <<RunName(1), <<"o", ".", "m", "p", "4">>>> }

Trees ==
    {RunsUnder(FlatLayout, n) : n \in 0..MaxRuns}
        \cup {RunsUnder(DeepLayout, n) : n \in 0..MaxRuns}
        \cup {fs \in SUBSET FilePool : Cardinality(fs) <= MaxDirs}

\* The value of --out when it is given.
OutName == <<"o", ".", "h", "t", "m", "l">>

\* A file that was there before the run.
OldFile == [exists |-> TRUE, content |-> [status |-> "old"]]

-----------------------------------------------------------------------------
(* main *)

NotFoundLine == [text |-> "Videos directory not found at /r/static/videos/highlight-videos"]

SearchingLine == [text |-> "Searching for videos in /r/static/videos/highlight-videos"]

NoVideosLine == [text |-> "<!-- No videos found -->"]

WroteLine(outp) == [text |-> "Wrote HTML to", arg |-> outp]

\* print(html): the line is the document.
HtmlLine(doc) == [text |-> "html", doc |-> doc]

Init ==
    /\ pc = "start"
    /\ \/ dir_exists = FALSE /\ files = {}
       \/ dir_exists = TRUE /\ files \in Trees
    /\ out_arg \in {<<>>, OutName}
    /\ out_file \in (IF out_arg = <<>> THEN {NoFile} ELSE {NoFile, OldFile})
    /\ videos = <<>>
    /\ grouped = <<>>
    /\ html = NoDoc
    /\ stdout = <<>>
    /\ IdlePage

\* Line 202: find_videos(base), lines 22..64. rglob yields the files in an order
\* the file system decides.
FindVideos ==
    /\ pc = "start"
    /\ \/ /\ ~dir_exists
          /\ stdout' = Append(stdout, NotFoundLine)
          /\ videos' = <<>>
          /\ pc' = "found"
       \/ /\ dir_exists
          /\ stdout' = Append(stdout, SearchingLine)
          /\ \E order \in Perms(Matches(files)) :
                IF Raises(order)
                THEN videos' = <<>> /\ pc' = "raised"
                ELSE videos' = Located(order) /\ pc' = "found"
    /\ UNCHANGED <<dir_exists, files, out_arg, grouped, html, out_file,
                   task_select, model_options, model_select, display>>

\* A main that opens the output file before it looks at the records.
NoVideosAfterOpen ==
    /\ pc = "found"
    /\ videos = <<>>
    /\ stdout' = Append(stdout, NoVideosLine)
    /\ out_file' = IF out_arg = <<>> THEN out_file
                   ELSE [exists |-> TRUE, content |-> [status |-> "empty"]]
    /\ pc' = "exit"
    /\ UNCHANGED <<dir_exists, files, out_arg, videos, grouped, html,
                   task_select, model_options, model_select, display>>

\* Lines 203..205.
NoVideos ==
    /\ pc = "found"
    /\ videos = <<>>
    /\ stdout' = Append(stdout, NoVideosLine)
    /\ pc' = "exit"
    /\ UNCHANGED <<dir_exists, files, out_arg, videos, grouped, html, out_file,
                   task_select, model_options, model_select, display>>

\* Line 206.
GroupVideos ==
    /\ pc = "found"
    /\ videos # <<>>
    /\ grouped' = group_by_task_model(videos)
    /\ pc' = "grouped"
    /\ UNCHANGED <<dir_exists, files, out_arg, videos, html, stdout, out_file,
                   task_select, model_options, model_select, display>>

\* Line 207.
RenderHtml ==
    /\ pc = "grouped"
    /\ html' = render_html(grouped)
    /\ pc' = IF html'.status = "ok" THEN "rendered" ELSE "raised"
    /\ UNCHANGED <<dir_exists, files, out_arg, videos, grouped, stdout, out_file,
                   task_select, model_options, model_select, display>>

\* Lines 208..213.
WriteOut ==
    /\ pc = "rendered"
    /\ out_arg # <<>>
    /\ out_file' = [exists |-> TRUE, content |-> html]
    /\ stdout' = Append(stdout, WroteLine(out_arg))
    /\ pc' = "document"
    /\ UNCHANGED <<dir_exists, files, out_arg, videos, grouped, html,
                   task_select, model_options, model_select, display>>

\* Lines 214..215.
PrintOut ==
    /\ pc = "rendered"
    /\ out_arg = <<>>
    /\ stdout' = Append(stdout, HtmlLine(html))
    /\ pc' = "document"
    /\ UNCHANGED <<dir_exists, files, out_arg, videos, grouped, html, out_file,
                   task_select, model_options, model_select, display>>

-----------------------------------------------------------------------------
(* The rendered page in a browser *)

\* The page is parsed: the Task control shows its first option, the Model
\* control the options of lines 121..122, every section is hidden; then the
\* script runs updateTask() (line 184).
PageLoad ==
    /\ pc = "document"
    /\ task_select' = FirstOption(html.task_options)
    /\ model_options' = html.modelsByTask[task_select']
    /\ model_select' = FirstOption(model_options')
    /\ display' = updateModel(html, task_select', model_select')
    /\ pc' = "page"
    /\ UNCHANGED <<dir_exists, files, out_arg, videos, grouped, html, stdout, out_file>>

\* The user picks another task: onchange="updateTask()" (lines 163..173).
ChangeTask ==
    /\ pc = "page"
    /\ \E n \in 1..Len(html.task_options) :
          /\ html.task_options[n] # task_select
          /\ task_select' = html.task_options[n]
    /\ model_options' = html.modelsByTask[task_select']
    /\ model_select' = FirstOption(model_options')
    /\ display' = updateModel(html, task_select', model_select')
    /\ UNCHANGED <<pc, dir_exists, files, out_arg, videos, grouped, html, stdout, out_file>>

\* The user picks another model: onchange="updateModel()" (lines 174..182).
ChangeModel ==
    /\ pc = "page"
    /\ \E n \in 1..Len(model_options) :
          /\ model_options[n] # model_select
          /\ model_select' = model_options[n]
    /\ display' = updateModel(html, task_select, model_select')
    /\ UNCHANGED <<pc, dir_exists, files, out_arg, videos, grouped, html, stdout, out_file,
                   task_select, model_options>>

Next ==
    \/ FindVideos
    \/ NoVideos
    \/ GroupVideos
    \/ RenderHtml
    \/ WriteOut
    \/ PrintOut
    \/ PageLoad
    \/ ChangeTask
    \/ ChangeModel

Spec == Init /\ [][Next]_vars

-----------------------------------------------------------------------------
(* SpecAgg: group_by_task_model applied to every list of records *)

MaxLen == 7

\* A record as find_videos builds it, for arguments given directly.
MkVideo(task, model, iter_num, path, scene) ==
    [path |-> path, abs_path |-> <<"/">> \o path, scene |-> scene, task |-> task,
     model |-> model, run_id |-> <<"r">> \o str(iter_num),
     iter_name |-> <<"r">> \o str(iter_num), iter_num |-> iter_num]

\* Seven records of one (task, model) pair, with ties on iter_num, with paths
\* whose order differs from the order of the numbers in them, and with one path
\* that occurs twice; and one record of another pair.
AggPool ==
    { MkVideo(<<"a">>, <<"m">>, 0, <<"b">>, <<"s">>),
      MkVideo(<<"a">>, <<"m">>, 0, <<"b">>, <<"x">>),
      MkVideo(<<"a">>, <<"m">>, 0, <<"a">>, <<"s">>),
      MkVideo(<<"a">>, <<"m">>, 1, <<"a", "-">>, <<"s">>),
      MkVideo(<<"a">>, <<"m">>, 2, <<"r", "1", "0">>, <<"s">>),
      MkVideo(<<"a">>, <<"m">>, 2, <<"r", "2">>, <<"s">>),
      MkVideo(<<"a">>, <<"m">>, 10, <<"0">>, <<"s">>),
      MkVideo(<<"b">>, <<"m">>, 0, <<"c">>, <<"s">>) }

InitAgg ==
    /\ pc = "agg_input"
    /\ dir_exists = TRUE
    /\ files = {}
    /\ out_arg = <<>>
    /\ videos = <<>>
    /\ grouped = <<>>
    /\ html = NoDoc
    /\ stdout = <<>>
    /\ out_file = NoFile
    /\ IdlePage

\* The caller builds the argument list, one record at a time.
AggAppend ==
    /\ pc = "agg_input"
    /\ Len(videos) < MaxLen
    /\ \E v \in AggPool :
          /\ \A i \in 1..Len(videos) : videos[i] # v
          /\ videos' = Append(videos, v)
    /\ UNCHANGED <<pc, dir_exists, files, out_arg, grouped, html, stdout, out_file,
                   task_select, model_options, model_select, display>>

AggCall ==
    /\ pc = "agg_input"
    /\ grouped' = group_by_task_model(videos)
    /\ pc' = "agg_done"
    /\ UNCHANGED <<dir_exists, files, out_arg, videos, html, stdout, out_file,
                   task_select, model_options, model_select, display>>

NextAgg == AggAppend \/ AggCall

SpecAgg == InitAgg /\ [][NextAgg]_vars

-----------------------------------------------------------------------------
(* Claims about group_by_task_model, under SpecAgg *)

\* How often x occurs in the sequence s.
Count(s, x) == Cardinality({i \in 1..Len(s) : s[i] = x})

\* The positions of the input records that belong to key k.
Members(k) == {i \in 1..Len(videos) : videos[i].task = k[1] /\ videos[i].model = k[2]}

CountMember(k, x) == Cardinality({i \in Members(k) : videos[i] = x})

\* a may stand before b in ascending order of (iter_num, path).
PairLeq(a, b) ==
    \/ a.iter_num < b.iter_num
    \/ a.iter_num = b.iter_num /\ (a.path = b.path \/ StrLess(a.path, b.path))

Ascending(g) == \A j \in 1..(Len(g) - 1) : PairLeq(g[j], g[j + 1])

DistinctPaths(vs) == \A i, j \in 1..Len(vs) : i # j => vs[i].path # vs[j].path

\* C1: a group of exactly 6 records is returned with 5 of them, the first 5 in
\* sorted order (so the one left out stands after every one kept); a group of
\* any other size is returned with all of its records, only reordered.
C1_SixToFive ==
    pc = "agg_done" =>
        /\ DOMAIN grouped = {<<videos[i].task, videos[i].model>> : i \in 1..Len(videos)}
        /\ \A k \in DOMAIN grouped :
              LET n == Cardinality(Members(k))
                  g == grouped[k]
                  dropped == {i \in Members(k) : Count(g, videos[i]) < CountMember(k, videos[i])}
              IN  /\ \A j \in 1..Len(g) : Count(g, g[j]) <= CountMember(k, g[j])
                  /\ n = 6 =>
                        /\ Len(g) = 5
                        /\ Ascending(g)
                        /\ Cardinality(dropped) = 1
                        /\ \A i \in dropped : \A j \in 1..Len(g) : PairLeq(g[j], videos[i])
                  /\ n # 6 => Len(g) = n /\ dropped = {}

C1_Witness ==
    /\ pc = "agg_done"
    /\ Len(videos) = 7
    /\ Cardinality(DOMAIN grouped) = 2
    /\ \E k \in DOMAIN grouped : Cardinality(Members(k)) = 6 /\ Len(grouped[k]) = 5

\* C2: in every returned group, truncated or not, adjacent records are in
\* ascending order of (iter_num, path).
C2_GroupsSorted ==
    pc = "agg_done" => \A k \in DOMAIN grouped : Ascending(grouped[k])

\* A truncated group whose input was not in order and which holds a tie on iter_num.
C2_Witness ==
    /\ pc = "agg_done"
    /\ ~Ascending(videos)
    /\ \E k \in DOMAIN grouped :
          /\ Cardinality(Members(k)) = 6
          /\ Len(grouped[k]) = 5
          /\ \E j \in 1..4 : grouped[k][j].iter_num = grouped[k][j + 1].iter_num

MaxPermLen == 4

Swap(vs, i) == [vs EXCEPT ![i] = vs[i + 1], ![i + 1] = vs[i]]

Permuted(vs, p) == [i \in 1..Len(vs) |-> vs[p[i]]]

\* C9: for a list of records with pairwise distinct paths, every permutation of
\* the list is grouped into the same keys with the same sequences. Lists of up to
\* MaxPermLen records are compared with all of their permutations; longer ones
\* with every exchange of two neighbours, which generate the permutations, each
\* list in between being a list this specification also reaches.
C9_OrderIndependent ==
    (pc = "agg_done" /\ DistinctPaths(videos)) =>
        /\ \A i \in 1..(Len(videos) - 1) : group_by_task_model(Swap(videos, i)) = grouped
        /\ Len(videos) <= MaxPermLen =>
              \A p \in Perms(1..Len(videos)) :
                  group_by_task_model(Permuted(videos, p)) = grouped

C9_Witness ==
    /\ pc = "agg_done"
    /\ DistinctPaths(videos)
    /\ ~Ascending(videos)
    /\ Cardinality(DOMAIN grouped) = 2
    /\ \E k \in DOMAIN grouped : Cardinality(Members(k)) = 6 /\ Len(grouped[k]) = 5

-----------------------------------------------------------------------------
(* SpecRender: render_html applied to groupings given directly, the empty one *)
(* included, and the page it returns                                        *)

MaxCards == 2

RenderKeys ==
    { <<TaskX, Gpt5Dated>>,
      <<TaskX, Gpt5Mini>>,
      <<<<"t">>, <<"a", "-">> \o Marker>>,
      <<<<"t", "-", "a">>, Marker>> }

\* n records of key k, in ascending order.
RenderVideos(k, n) == [j \in 1..n |-> MkVideo(k[1], k[2], j - 1, RunName(j - 1), SceneA)]

RenderInputs ==
    UNION {{[k \in ks |-> RenderVideos(k, n[k])] : n \in [ks -> 1..MaxCards]} :
              ks \in SUBSET RenderKeys}

InitRender ==
    /\ pc = "render_input"
    /\ dir_exists = TRUE
    /\ files = {}
    /\ out_arg = <<>>
    /\ videos = <<>>
    /\ grouped \in RenderInputs
    /\ html = NoDoc
    /\ stdout = <<>>
    /\ out_file = NoFile
    /\ IdlePage

RenderCall ==
    /\ pc = "render_input"
    /\ html' = render_html(grouped)
    /\ pc' = IF html'.status = "ok" THEN "document" ELSE "raised"
    /\ UNCHANGED <<dir_exists, files, out_arg, videos, grouped, stdout, out_file,
                   task_select, model_options, model_select, display>>

NextRender == RenderCall \/ PageLoad \/ ChangeTask \/ ChangeModel

SpecRender == InitRender /\ [][NextRender]_vars

-----------------------------------------------------------------------------
(* Claims about main, find_videos and the page, under Spec *)

\* main has returned (or an exception has ended it).
Ended == pc \in {"exit", "document", "page", "raised"}

\* C3: when the video root is empty or absent, standard output holds the
\* comment <!-- No videos found --> and nothing else.
C3_OnlyTheComment ==
    (pc = "exit" /\ (~dir_exists \/ files = {})) => stdout = <<NoVideosLine>>

FeedbackIteration ==
    <<"F", "e", "e", "d", "b", "a", "c", "k", " ", "i", "t", "e", "r", "a", "t", "i", "o",
      "n", " ">>

\* C4: with sceneA/taskX/gpt-5-2025-08-07/run_0..run_5/sim.mp4 below the video
\* root, the run ends with a group (taskX, gpt-5-2025-08-07) of 5 entries whose
\* cards are captioned "Feedback iteration 0" .. "Feedback iteration 4", in order.
C4_SixRunsFiveCards ==
    (files = RunsUnder(FlatLayout, 6) /\ Ended) =>
        /\ html.status = "ok"
        /\ <<TaskX, Gpt5Dated>> \in DOMAIN grouped
        /\ Len(grouped[<<TaskX, Gpt5Dated>>]) = 5
        /\ \E n \in 1..Len(html.sections) :
              /\ html.sections[n].task = TaskX
              /\ html.sections[n].model = Gpt5Dated
              /\ Len(html.sections[n].cards) = 5
              /\ \A j \in 1..5 :
                    html.sections[n].cards[j].caption
                        = FeedbackIteration \o <<<<"0", "1", "2", "3", "4">>[j]>>

\* C5: every sim.mp4 of at least 6 segments with a marker segment gives a
\* record whose scene is segment 1, whose task, model and run_id are the
\* segments at i-1, i and i+1 (0-based) for i the first marker segment, each of
\* them a segment of the path; and find_videos does not raise.
C5_IndexRule ==
    pc # "start" =>
        /\ pc # "raised"
        /\ \A rel \in Matches(files) :
              (Len(rel) >= 6 /\ \E m \in 1..Len(rel) : Contains(rel[m], Marker)) =>
                  LET i == CHOOSE m \in 1..Len(rel) :
                               /\ Contains(rel[m], Marker)
                               /\ \A j \in 1..(m - 1) : ~Contains(rel[j], Marker)
                  IN  /\ i - 1 \in 1..Len(rel)
                      /\ i + 1 \in 1..Len(rel)
                      /\ \E n \in 1..Len(videos) :
                            /\ videos[n].path = WebPrefix \o JoinPath(rel)
                            /\ videos[n].scene = rel[2]
                            /\ videos[n].task = rel[i - 1]
                            /\ videos[n].model = rel[i]
                            /\ videos[n].run_id = rel[i + 1]

\* C6: the rendered document has one section per (task, model) key, each
\* hidden, and no two sections have the same identifier.
C6_SectionsDistinct ==
    html.status = "ok" =>
        /\ Len(html.sections) = Cardinality(DOMAIN grouped)
        /\ \A n \in 1..Len(html.sections) : html.sections[n].display = "none"
        /\ \A m, n \in 1..Len(html.sections) :
              m # n => html.sections[m].id # html.sections[n].id

\* C8: once the page is initialised, and after every change of task or model,
\* exactly one section is visible: the one of the selected (task, model) pair.
C8_SelectedSectionVisible ==
    pc = "page" =>
        \E n \in 1..Len(display) :
            /\ display[n] = "block"
            /\ html.sections[n].task = task_select
            /\ html.sections[n].model = model_select
            /\ \A m \in 1..Len(display) : m # n => display[m] = "none"

\* C10: the output file changes only when records were located and --out is
\* given, and then it holds exactly the rendered document; a run without records
\* leaves it as it was; a run that writes it prints no HTML.
C10_FileWrittenOnlyWithVideos ==
    [][ /\ out_file' # out_file =>
              /\ videos # <<>>
              /\ out_arg # <<>>
              /\ html.status = "ok"
              /\ out_file' = [exists |-> TRUE, content |-> html]
        /\ (pc' = "exit") => out_file' = out_file
        /\ (pc = "rendered" /\ out_arg # <<>>) =>
              /\ out_file' = [exists |-> TRUE, content |-> html]
              /\ \A n \in 1..Len(stdout') : stdout'[n].text # "html"
      ]_vars

C10_Witness ==
    /\ pc = "document"
    /\ videos # <<>>
    /\ out_file = [exists |-> TRUE, content |-> html]
    /\ stdout = <<SearchingLine, WroteLine(OutName)>>

-----------------------------------------------------------------------------
(* Claims about render_html alone, under SpecRender *)

\* C7: render_html of the empty grouping returns a document with empty Task
\* and Model controls and no sections.
C7_EmptyGroupingRenders ==
    (pc # "render_input" /\ DOMAIN grouped = {}) =>
        /\ html.status = "ok"
        /\ html.task_options = <<>>
        /\ html.model_options = <<>>
        /\ html.sections = <<>>

=============================================================================
